---- MODULE Spec2Model ----
(***************************************************************************)
(* Model of the UBX NAV-PVT reader -> MQTT publisher                       *)
(* (src/Tracker/root/santa-tracker-pi/gps_ubx_mqtt.py).                    *)
(*                                                                         *)
(* Bytes are integers 0..255, byte strings are sequences.  Times are in    *)
(* tenths of a second.  An Optional value is a sequence of length 0        *)
(* (None) or 1.                                                            *)
(***************************************************************************)
EXTENDS Integers, Sequences, FiniteSets, TLC

VARIABLES
    wire,       \* bytes waiting at the serial port, not yet returned by ser.read
    buf,        \* UbxReader.buf
    ret,        \* value returned by the last read_packet call (<<>> is None)
    split,      \* history: a ser.read returned some but not all of the bytes waiting, since the newest frame was sent
    results,    \* history: the non-None values returned by read_packet, in order
    sent,       \* history: the valid frames put on the wire, in order
    fstart,     \* history: offset in wire of the first byte of the newest frame (0: already read)
    solo,       \* history: the newest frame was put on an empty wire while buf was empty
    cut,        \* history: the last ser.read ended exactly with the newest frame's SYNC1
    noiseN,     \* history: number of noise bytes put on the wire
    tail,       \* history: what was put on the wire last: <<"none">>, <<"frame">>, <<"corrupt">>, <<"noise", b>>
    followed,   \* history: the newest valid frame was sent right behind a corrupted frame
    ncorrupt,   \* history: number of corrupted frames put on the wire
    passes,     \* history: len(self.buf) at the start of each pass of the while loop in the last read_packet call
    pc,         \* position of main: "open", "configure", "loop", "exited"
    exc,        \* exception that left main ("none" while running or after a clean exit)
    clock,      \* time.time()
    last_pub,   \* main's last_pub
    last_fix,   \* main's last_fix (<<>> is None)
    written,    \* frames written to the serial port by write_ubx, in order
    cfgFailed,  \* history: a serial write raised inside configure_receiver
    everRead,   \* history: main has called read_packet
    nfix,       \* history: number of fixes decoded by parse_nav_pvt
    pubCount,   \* history: number of publish_fix calls
    prevPub,    \* history: clock value handed to the last publish_fix decision that published (-1: never)
    fixPub,     \* history: the last decoded fix was forwarded by publish_fix
    fixGap,     \* history: time between the last decoded fix's throttle check and the publish before it (-1: none before)
    hbSinceFix, \* history: heartbeats (fix_ok "0") published since the last decoded fix
    offline,    \* the retained status "offline" has been published
    shutdown,   \* history: the steps main's finally block attempted, in order, each with its outcome
    spin,       \* history: parity of the number of iterations main's while loop has run
    readFailed, \* history: ser.read raised inside read_packet
    opens,      \* history: outcomes of the serial.Serial(...) calls, in order ("ok", "failed")
    payloadIn,  \* argument of a direct parse_nav_pvt call
    parsedOut,  \* what that call gave (<<>> before the call)
    frameIn,    \* arguments (msg_class, msg_id, payload) of a direct ubx_packet call
    bytesOut    \* what that call gave (<<>> before the call)

rdvars   == <<wire, buf, ret, split, results, sent, fstart, solo, cut, noiseN, tail, followed, ncorrupt, passes>>
mainvars == <<pc, exc, clock, last_pub, last_fix, written, cfgFailed, everRead, nfix,
              pubCount, prevPub, fixPub, fixGap, hbSinceFix, offline, shutdown, spin,
              readFailed, opens, payloadIn, parsedOut, frameIn, bytesOut>>
vars     == <<wire, buf, ret, split, results, sent, fstart, solo, cut, noiseN, tail, followed, ncorrupt, passes,
              pc, exc, clock, last_pub, last_fix, written, cfgFailed, everRead, nfix,
              pubCount, prevPub, fixPub, fixGap, hbSinceFix, offline, shutdown, spin,
              readFailed, opens, payloadIn, parsedOut, frameIn, bytesOut>>

(* Bounds of the model *)

MaxPayload == 2
MaxFrames == 1
MaxNoise == 7
MaxFewFrames == 1
MaxCorrupt == 1
StartClock == 20
MaxClock == 90
MaxMainFrames == 3
MaxFairFrames == 2
MaxLenSlack == 1
MaxResyncNoise == 2
MaxQueued == 2
MaxJunk == 8

(* Program constants *)

SYNC1 == 181
SYNC2 == 98
CLASS_NAV == 1
ID_NAV_PVT == 7
CLASS_CFG == 6
ID_CFG_MSG == 1
NavPvtLen == 92
ThrottleInterval == 10
StaleAfter == 50

None == <<>>
Some(x) == <<x>>

\* the element of a one-element set; The({F(x) : x \in {e}}) is F(e) with e
\* computed once, before F is applied
The(S) == CHOOSE x \in S : TRUE

(* UBX helpers *)

CkBlock == 20

\* The for loop of ubx_checksum run over data[i..j], ck being (ck_a, ck_b)
\* before byte i.  The pair after byte i is bound as a value (n) before the
\* loop goes on, so that no sum is computed twice.
RECURSIVE CkRun(_, _, _, _)
CkRun(data, i, j, ck) ==
    IF i > j THEN ck
    ELSE The({CkRun(data, i + 1, j, n) :
                 n \in {<<(ck[1] + data[i]) % 256, (ck[2] + ck[1] + data[i]) % 256>>}})

\* The for loop of ubx_checksum from byte i on, run CkBlock bytes at a time so
\* that the evaluation stays shallow on long payloads.
RECURSIVE CkFold(_, _, _)
CkFold(data, i, ck) ==
    IF i > Len(data) THEN ck
    ELSE The({The({CkFold(data, j + 1, done) : done \in {CkRun(data, i, j, ck)}}) :
                 j \in {IF i + CkBlock - 1 < Len(data) THEN i + CkBlock - 1 ELSE Len(data)}})

ubx_checksum(data) == The({CkFold(d, 1, <<0, 0>>) : d \in {data}})

PackU16LE_bigEndian(n) == <<(n \div 256) % 256, n % 256>>

PackU16LE(n) == <<n % 256, (n \div 256) % 256>>

UnpackU16LE_lowByteOnly(b, off) == b[off + 1]

UnpackU16LE(b, off) == b[off + 1] + 256 * b[off + 2]

ubx_packet(msg_class, msg_id, payload) ==
    LET hdr == <<msg_class, msg_id>> \o PackU16LE(Len(payload)) \o payload
        ck  == ubx_checksum(hdr)
    IN  <<SYNC1, SYNC2>> \o hdr \o <<ck[1], ck[2]>>

cfg_msg_payload_ubx6(msg_class, msg_id, rate_i2c, rate_uart1, rate_uart2, rate_usb) ==
    <<msg_class, msg_id, rate_i2c % 256, rate_uart1 % 256, rate_uart2 % 256, rate_usb % 256>>

(* UbxReader.read_packet *)

\* bytearray.find(bytes([SYNC1, SYNC2])): 0-based index of the first match, or -1
FindSync(b) ==
    LET hits == {i \in 1..(Len(b) - 1) : b[i] = SYNC1 /\ b[i + 1] = SYNC2}
    IN  IF hits = {} THEN -1
        ELSE (CHOOSE i \in hits : \A j \in hits : i <= j) - 1

\* del b[:n]
DelPrefix(b, n) == SubSeq(b, n + 1, Len(b))

NoSyncBuf_keepsAll(b) == b

\* what is left of the buffer when no sync marker is found in it
NoSyncBuf(b) == <<>>

TotalLen_noChecksum(length) == 2 + 4 + length

TotalLen(length) == 2 + 4 + length + 2

Incomplete_offByOne(b, total_len) == Len(b) <= total_len

Incomplete(b, total_len) == Len(b) < total_len

\* pkt[2:-2]
HdrPlusPayload(pkt) == SubSeq(pkt, 3, Len(pkt) - 2)

PayloadOf_keepsChecksumByte(pkt) == SubSeq(pkt, 7, Len(pkt) - 1)

\* pkt[6:-2]
PayloadOf(pkt) == SubSeq(pkt, 7, Len(pkt) - 2)

ChecksumBad_bothMustDiffer(ck, pkt) == ck[1] # pkt[Len(pkt) - 1] /\ ck[2] # pkt[Len(pkt)]

ChecksumBad_ckAOnly(ck, pkt) == ck[1] # pkt[Len(pkt) - 1]

ChecksumBad(ck, pkt) == ck[1] # pkt[Len(pkt) - 1] \/ ck[2] # pkt[Len(pkt)]

Resync_keepsOne(b, sync_idx) == IF sync_idx > 1 THEN DelPrefix(b, sync_idx - 1) ELSE b

\* if sync_idx > 0: del self.buf[:sync_idx]
Resync(b, sync_idx) == IF sync_idx > 0 THEN DelPrefix(b, sync_idx) ELSE b

AfterCandidate_skipsHeader(b, total_len) == DelPrefix(b, 6)

AfterCandidate_skipsSync(b, total_len) == DelPrefix(b, 2)

AfterCandidate_clearsAll(b, total_len) == <<>>

\* del self.buf[:total_len]
AfterCandidate(b, total_len) == DelPrefix(b, total_len)

\* one pass through the body of the while loop; again is TRUE when the pass
\* ends in `continue`, FALSE when it ends in a return
ScanIter(b) ==
    IF Len(b) < 8 THEN [buf |-> b, ret |-> None, again |-> FALSE]
    ELSE
    LET sync_idx == FindSync(b) IN
    IF sync_idx = -1 THEN [buf |-> NoSyncBuf(b), ret |-> None, again |-> FALSE]
    ELSE
    LET b2 == Resync(b, sync_idx) IN
    IF Len(b2) < 8 THEN [buf |-> b2, ret |-> None, again |-> FALSE]
    ELSE
    LET msg_class == b2[3]
        msg_id    == b2[4]
        length    == UnpackU16LE(b2, 4)
        total_len == TotalLen(length)
    IN
    IF Incomplete(b2, total_len) THEN [buf |-> b2, ret |-> None, again |-> FALSE]
    ELSE
    LET pkt  == SubSeq(b2, 1, total_len)
        rest == AfterCandidate(b2, total_len)
        ck   == ubx_checksum(HdrPlusPayload(pkt))
    IN
    IF ChecksumBad(ck, pkt) THEN [buf |-> rest, ret |-> None, again |-> TRUE]
    ELSE [buf |-> rest, ret |-> Some(<<msg_class, msg_id, PayloadOf(pkt)>>), again |-> FALSE]

\* the while loop of read_packet, run on the buffer after the chunk was appended
RECURSIVE ScanLoop(_)
ScanLoop(b) ==
    The({IF s.again THEN ScanLoop(s.buf) ELSE [buf |-> s.buf, ret |-> s.ret] :
            s \in {ScanIter(b)}})

\* len(self.buf) at the start of each pass the while loop makes on buffer b
RECURSIVE ScanLens(_)
ScanLens(b) ==
    The({<<Len(b)>> \o (IF s.again THEN ScanLens(s.buf) ELSE <<>>) :
            s \in {ScanIter(b)}})

read_packet_prepends(b, c) == The({ScanLoop(x) : x \in {IF c # <<>> THEN c \o b ELSE b}})

\* read_packet when ser.read returns c
read_packet(b, c) == The({ScanLoop(x) : x \in {IF c # <<>> THEN b \o c ELSE b}})


(* The serial source.  ser.read(4096) returns the first k bytes waiting at the
   port, k = 0 being a read that times out with nothing. *)

ReadMax == 4096

Min(a, b) == IF a < b THEN a ELSE b

IsPrefix(s, t) == Len(s) <= Len(t) /\ SubSeq(t, 1, Len(s)) = s

IsSuffix(s, t) == Len(s) <= Len(t) /\ SubSeq(t, Len(t) - Len(s) + 1, Len(t)) = s

PayloadBytes == {0, SYNC1}
NoiseBytes == {0, SYNC2, SYNC1}
Headers == {<<CLASS_NAV, ID_NAV_PVT>>, <<SYNC1, SYNC2>>}

Payloads == UNION {[1..n -> PayloadBytes] : n \in 0..MaxPayload}

\* (msg_class, msg_id, payload) triples the receiver sends
Frames == {<<h[1], h[2], p>> : h \in Headers, p \in Payloads}
FewFrames == {<<CLASS_NAV, ID_NAV_PVT, <<>> >>, <<SYNC1, SYNC2, <<SYNC1>> >>}
CorruptBytes == {0, SYNC2}

Encode(f) == ubx_packet(f[1], f[2], f[3])

\* reader.read_packet() with ser.read returning the first k bytes of the wire
ReadStep(k) ==
    \E r \in {read_packet(buf, SubSeq(wire, 1, k))} :
        /\ wire' = DelPrefix(wire, k)
        /\ split' = (split \/ (0 < k /\ k < Len(wire)))
        /\ buf' = r.buf
        /\ ret' = r.ret
        /\ results' = results \o r.ret
        /\ passes' = ScanLens(buf \o SubSeq(wire, 1, k))
        /\ fstart' = IF fstart > k THEN fstart - k ELSE 0
        /\ cut' = (fstart > 0 /\ k = fstart)
        /\ UNCHANGED <<sent, solo, noiseN, tail, followed, ncorrupt>>

ReadPacket ==
    /\ \E k \in 0..Min(Len(wire), ReadMax) : ReadStep(k)
    /\ UNCHANGED mainvars

\* the receiver sends one valid frame
SendFrame(f) ==
    /\ wire' = wire \o Encode(f)
    /\ sent' = Append(sent, f)
    /\ fstart' = Len(wire) + 1
    /\ solo' = (wire = <<>> /\ buf = <<>>)
    /\ split' = FALSE
    /\ tail' = <<"frame">>
    /\ followed' = (tail = <<"corrupt">>)
    /\ UNCHANGED <<buf, ret, results, cut, noiseN, ncorrupt, passes>>

EmitFrame ==
    /\ Len(sent) < MaxFrames
    /\ \E f \in Frames : SendFrame(f)
    /\ UNCHANGED mainvars

EmitFewFrame ==
    /\ Len(sent) < MaxFewFrames
    /\ \E f \in FewFrames : SendFrame(f)
    /\ UNCHANGED mainvars

\* an idle line read as zero bytes: one run of them, of one byte or of MaxJunk
\* bytes, enough to fill a buffer of 8 bytes without a sync marker
EmitJunk ==
    /\ noiseN = 0
    /\ \E n \in {1, MaxJunk} :
          /\ wire' = wire \o [i \in 1..n |-> 0]
          /\ noiseN' = n
    /\ tail' = <<"noise", 0>>
    /\ UNCHANGED <<buf, ret, split, results, sent, fstart, solo, cut, followed, ncorrupt, passes>>
    /\ UNCHANGED mainvars

\* as EmitFewFrame, for a line on which up to MaxQueued frames wait together
EmitQueued ==
    /\ Len(sent) < MaxQueued
    /\ \E f \in FewFrames : SendFrame(f)
    /\ UNCHANGED mainvars

\* line noise: one byte that does not complete a sync pair inside the noise
EmitNoise ==
    /\ noiseN < MaxNoise
    /\ \E b \in NoiseBytes :
          /\ ~(tail = <<"noise", SYNC1>> /\ b = SYNC2)
          /\ wire' = wire \o <<b>>
          /\ tail' = <<"noise", b>>
    /\ noiseN' = noiseN + 1
    /\ UNCHANGED <<buf, ret, split, results, sent, fstart, solo, cut, followed, ncorrupt, passes>>
    /\ UNCHANGED mainvars

\* as EmitNoise, for a line with at most MaxResyncNoise noise bytes
EmitNoiseFew ==
    /\ noiseN < MaxResyncNoise
    /\ \E b \in NoiseBytes :
          /\ ~(tail = <<"noise", SYNC1>> /\ b = SYNC2)
          /\ wire' = wire \o <<b>>
          /\ tail' = <<"noise", b>>
    /\ noiseN' = noiseN + 1
    /\ UNCHANGED <<buf, ret, split, results, sent, fstart, solo, cut, followed, ncorrupt, passes>>
    /\ UNCHANGED mainvars

\* a frame that left the receiver valid and had one payload or checksum byte
\* changed on the line
EmitCorrupt ==
    /\ ncorrupt < MaxCorrupt
    /\ \E f \in FewFrames :
        LET pkt == Encode(f) IN
        \E p \in 7..Len(pkt) : \E v \in CorruptBytes :
          /\ v # pkt[p]
          /\ wire' = wire \o [pkt EXCEPT ![p] = v]
    /\ ncorrupt' = ncorrupt + 1
    /\ fstart' = 0
    /\ solo' = FALSE
    /\ tail' = <<"corrupt">>
    /\ UNCHANGED <<buf, ret, split, results, sent, cut, followed, noiseN, passes>>
    /\ UNCHANGED mainvars

\* values of a length field that claims more payload than follows it
OversizeLens == {3, 256, 65535}

\* a frame head whose length field claims payload bytes that do not follow it
\* (a length field changed on the line, or a sync pair in other data)
EmitOversize ==
    /\ ncorrupt < MaxCorrupt
    /\ \E L \in OversizeLens :
          wire' = wire \o <<SYNC1, SYNC2, CLASS_NAV, ID_NAV_PVT>> \o PackU16LE(L)
    /\ ncorrupt' = ncorrupt + 1
    /\ fstart' = 0
    /\ solo' = FALSE
    /\ tail' = <<"corrupt">>
    /\ UNCHANGED <<buf, ret, split, results, sent, cut, followed, noiseN, passes>>
    /\ UNCHANGED mainvars

InitCommon ==
    /\ wire = <<>>
    /\ buf = <<>>
    /\ ret = None
    /\ split = FALSE
    /\ results = <<>>
    /\ sent = <<>>
    /\ fstart = 0
    /\ solo = FALSE
    /\ cut = FALSE
    /\ noiseN = 0
    /\ tail = <<"none">>
    /\ followed = FALSE
    /\ ncorrupt = 0
    /\ passes = <<>>
    /\ pc = "open"
    /\ exc = "none"
    /\ clock = StartClock
    /\ last_pub = 0
    /\ last_fix = None
    /\ written = <<>>
    /\ cfgFailed = FALSE
    /\ everRead = FALSE
    /\ nfix = 0
    /\ pubCount = 0
    /\ prevPub = -1
    /\ fixPub = FALSE
    /\ fixGap = -1
    /\ hbSinceFix = 0
    /\ offline = FALSE
    /\ shutdown = <<>>
    /\ spin = 0
    /\ readFailed = FALSE
    /\ opens = <<>>
    /\ parsedOut = None
    /\ bytesOut = None

Init ==
    /\ InitCommon
    /\ payloadIn = <<>>
    /\ frameIn = <<>>

\* a reader fed valid frames only
NextClean == EmitFrame \/ ReadPacket
SpecClean == Init /\ [][NextClean]_vars

\* a reader fed valid frames and line noise
NextNoise == EmitFewFrame \/ EmitNoise \/ ReadPacket
SpecNoise == Init /\ [][NextNoise]_vars

\* a reader fed valid frames and a little line noise
NextResync == EmitFewFrame \/ EmitNoiseFew \/ ReadPacket
SpecResync == Init /\ [][NextResync]_vars

\* a reader fed valid frames and corrupted frames
NextCorrupt == EmitFewFrame \/ EmitCorrupt \/ ReadPacket
SpecCorrupt == Init /\ [][NextCorrupt]_vars

\* a reader fed valid frames, frame heads with a wrong length field and runs
\* of zero bytes
NextJunk == EmitFewFrame \/ EmitOversize \/ EmitJunk \/ ReadPacket
SpecJunk == Init /\ [][NextJunk]_vars

\* a reader fed several valid frames, which may arrive in one read
NextQueue == EmitQueued \/ ReadPacket
SpecQueue == Init /\ [][NextQueue]_vars

\* a reader fed valid frames and frame heads with a wrong length field
NextOversize == EmitFewFrame \/ EmitOversize \/ ReadPacket
SpecOversize == Init /\ [][NextOversize]_vars

(* parse_nav_pvt *)

U16LE(p, off) == p[off + 1] + 256 * p[off + 2]

U32LE(p, off) ==
    p[off + 1] + 256 * p[off + 2] + 65536 * p[off + 3] + 16777216 * p[off + 4]

\* struct "<i": two's complement, the top byte carrying the sign
I32LE(p, off) ==
    LET low == p[off + 1] + 256 * p[off + 2] + 65536 * p[off + 3]
        top == p[off + 4]
    IN  IF top >= 128 THEN (top - 256) * 16777216 + low ELSE top * 16777216 + low

BitAnd1(x) == x % 2
BitAnd3_bit0Only(x) == x % 2

BitAnd3(x) == x % 4

BadLength_shortOnly(payload) == Len(payload) < NavPvtLen

\* the test that makes parse_nav_pvt raise ValueError
BadLength(payload) == Len(payload) # NavPvtLen

\* parse_nav_pvt(payload) when time.time() reads t.  lat, lon and the speeds are
\* kept as the integers the floats are made from (1e-7 deg, mm/s, 1e-4 km/h).
parse_nav_pvt(payload, t) ==
    IF BadLength(payload) THEN [raised |-> TRUE, fix |-> <<>>]
    ELSE [raised |-> FALSE,
          fix |-> [iTOW_ms   |-> U32LE(payload, 0),
                   time      |-> <<U16LE(payload, 4), payload[7], payload[8],
                                   payload[9], payload[10], payload[11]>>,
                   time_ok   |-> BitAnd3(payload[12]) # 0,
                   fix_type  |-> payload[21],
                   fix_ok    |-> BitAnd1(payload[22]) # 0,
                   numSV     |-> payload[24],
                   lat       |-> I32LE(payload, 28),
                   lon       |-> I32LE(payload, 24),
                   speed_mps |-> I32LE(payload, 60),
                   speed_kmh |-> 36 * I32LE(payload, 60),
                   timestamp |-> t]]

(* main *)

ConfigFrames_rmcBeforeGga ==
    << ubx_packet(CLASS_CFG, ID_CFG_MSG, cfg_msg_payload_ubx6(CLASS_NAV, ID_NAV_PVT, 0, 0, 0, 1)),
       ubx_packet(CLASS_CFG, ID_CFG_MSG, cfg_msg_payload_ubx6(240, 4, 0, 0, 0, 0)),
       ubx_packet(CLASS_CFG, ID_CFG_MSG, cfg_msg_payload_ubx6(240, 0, 0, 0, 0, 0)),
       ubx_packet(CLASS_CFG, ID_CFG_MSG, cfg_msg_payload_ubx6(240, 8, 0, 0, 0, 0)) >>

\* the four CFG-MSG frames of configure_receiver, in order
ConfigFrames ==
    << ubx_packet(CLASS_CFG, ID_CFG_MSG, cfg_msg_payload_ubx6(CLASS_NAV, ID_NAV_PVT, 0, 0, 0, 1)),
       ubx_packet(CLASS_CFG, ID_CFG_MSG, cfg_msg_payload_ubx6(240, 0, 0, 0, 0, 0)),
       ubx_packet(CLASS_CFG, ID_CFG_MSG, cfg_msg_payload_ubx6(240, 4, 0, 0, 0, 0)),
       ubx_packet(CLASS_CFG, ID_CFG_MSG, cfg_msg_payload_ubx6(240, 8, 0, 0, 0, 0)) >>

Finally_stopsAtFailure(e) ==
    /\ pc' = "exited"
    /\ exc' = e
    /\ \E a, b \in BOOLEAN :
          /\ offline' = a
          /\ shutdown' = IF ~a THEN << <<"offline", a>> >>
                         ELSE IF ~b THEN << <<"offline", a>>, <<"loop_stop", b>> >>
                         ELSE << <<"offline", a>>, <<"loop_stop", b>>, <<"close", TRUE>> >>

\* the finally block of main, entered with exception e pending ("none" after
\* a caught KeyboardInterrupt): the status publish and loop_stop may fail, are
\* swallowed, and reader.close() swallows the failure of ser.close itself
Finally(e) ==
    /\ pc' = "exited"
    /\ exc' = e
    /\ \E a, b \in BOOLEAN :
          /\ offline' = a
          /\ shutdown' = << <<"offline", a>>, <<"loop_stop", b>>, <<"close", TRUE>> >>

\* mqtt_connect() and UbxReader(...): serial.Serial opens the port
OpenOk ==
    /\ pc = "open"
    /\ pc' = "configure"
    /\ opens' = Append(opens, "ok")
    /\ UNCHANGED <<exc, clock, last_pub, last_fix, written, cfgFailed, everRead, nfix,
                   pubCount, prevPub, fixPub, fixGap, hbSinceFix, offline, shutdown, spin,
                   readFailed, payloadIn, parsedOut, frameIn, bytesOut>>
    /\ UNCHANGED rdvars

OpenFail_swallowed ==
    /\ pc = "open"
    /\ pc' = "configure"
    /\ opens' = Append(opens, "failed")
    /\ UNCHANGED <<exc, clock, last_pub, last_fix, written, cfgFailed, everRead, nfix,
                   pubCount, prevPub, fixPub, fixGap, hbSinceFix, offline, shutdown, spin,
                   readFailed, payloadIn, parsedOut, frameIn, bytesOut>>
    /\ UNCHANGED rdvars

\* serial.Serial raises: main is left before its try block
OpenFail ==
    /\ pc = "open"
    /\ pc' = "exited"
    /\ exc' = "SerialException"
    /\ opens' = Append(opens, "failed")
    /\ UNCHANGED <<clock, last_pub, last_fix, written, cfgFailed, everRead, nfix,
                   pubCount, prevPub, fixPub, fixGap, hbSinceFix, offline, shutdown, spin,
                   readFailed, payloadIn, parsedOut, frameIn, bytesOut>>
    /\ UNCHANGED rdvars

\* one write_ubx of configure_receiver; after the fourth, main enters the loop
ConfigWriteOk ==
    /\ pc = "configure"
    /\ written' = Append(written, ConfigFrames[Len(written) + 1])
    /\ pc' = IF Len(written') = Len(ConfigFrames) THEN "loop" ELSE "configure"
    /\ UNCHANGED <<exc, clock, last_pub, last_fix, cfgFailed, everRead, nfix,
                   pubCount, prevPub, fixPub, fixGap, hbSinceFix, offline, shutdown, spin,
                   readFailed, opens, payloadIn, parsedOut, frameIn, bytesOut>>
    /\ UNCHANGED rdvars

\* ser.write raises inside write_ubx: nothing catches it before main's finally
ConfigWriteFail ==
    /\ pc = "configure"
    /\ cfgFailed' = TRUE
    /\ Finally("SerialException")
    /\ UNCHANGED <<clock, last_pub, last_fix, written, everRead, nfix,
                   pubCount, prevPub, fixPub, fixGap, hbSinceFix, spin,
                   readFailed, opens, payloadIn, parsedOut, frameIn, bytesOut>>
    /\ UNCHANGED rdvars

\* Ctrl+C inside the try block
Interrupt ==
    /\ pc \in {"configure", "loop"}
    /\ Finally("none")
    /\ UNCHANGED <<clock, last_pub, last_fix, written, cfgFailed, everRead, nfix,
                   pubCount, prevPub, fixPub, fixGap, hbSinceFix, spin,
                   readFailed, opens, payloadIn, parsedOut, frameIn, bytesOut>>
    /\ UNCHANGED rdvars

\* ser.read raises inside read_packet
ReadFail ==
    /\ pc = "loop"
    /\ everRead' = TRUE
    /\ readFailed' = TRUE
    /\ Finally("SerialException")
    /\ UNCHANGED <<clock, last_pub, last_fix, written, cfgFailed, nfix,
                   pubCount, prevPub, fixPub, fixGap, hbSinceFix, spin,
                   opens, payloadIn, parsedOut, frameIn, bytesOut>>
    /\ UNCHANGED rdvars

NextLastPub_everyFix(pub, now, lastpub) == now

\* last_pub after the throttle test: `last_pub = now` is inside the if
NextLastPub(pub, now, lastpub) == IF pub THEN now ELSE lastpub

ThrottleOpen_strict(now, lastpub) == now - lastpub > ThrottleInterval

ThrottleOpen(now, lastpub) == now - lastpub >= ThrottleInterval

IsNavPvt_classOnly(msg_class, msg_id) == msg_class = CLASS_NAV

\* the test that sends a frame to parse_nav_pvt
IsNavPvt(msg_class, msg_id) == msg_class = CLASS_NAV /\ msg_id = ID_NAV_PVT

IsStale(t, fix) == t - fix.timestamp > StaleAfter

HeartbeatDue_noFixTest(t, lf) == lf = None \/ IsStale(t, lf[1])

\* the test before the fix_ok "0" publish, lf being last_fix
HeartbeatDue(t, lf) == lf # None /\ IsStale(t, lf[1])

\* time a call takes between two time.time() reads of one iteration
InnerDelays == {0, 5}

\* One iteration of the while loop of main: ser.read returns the first k bytes
\* waiting; d1 and d2 are the times that pass between the time.time() calls.
LoopIteration(k) ==
    /\ pc = "loop"
    /\ \E r \in {read_packet(buf, SubSeq(wire, 1, k))} :
        /\ ReadStep(k)
        /\ everRead' = TRUE
        /\ spin' = 1 - spin
        /\ UNCHANGED <<written, cfgFailed, readFailed, opens, payloadIn, parsedOut, frameIn, bytesOut>>
        /\ IF r.ret = None
           THEN \* continue
                UNCHANGED <<pc, exc, clock, last_pub, last_fix, nfix,
                            pubCount, prevPub, fixPub, fixGap, hbSinceFix, offline, shutdown>>
           ELSE
           LET msg_class == r.ret[1][1]
               msg_id    == r.ret[1][2]
               payload   == r.ret[1][3]
           IN
           IF IsNavPvt(msg_class, msg_id)
           THEN LET parsed == parse_nav_pvt(payload, clock) IN
                IF parsed.raised
                THEN \* ValueError leaves the loop
                     /\ Finally("ValueError")
                     /\ UNCHANGED <<clock, last_pub, last_fix, nfix,
                                    pubCount, prevPub, fixPub, fixGap, hbSinceFix>>
                ELSE \E d1, d2 \in InnerDelays :
                     LET fix == parsed.fix
                         now == clock + d1
                         pub == ThrottleOpen(now, last_pub)
                         t3  == now + d2
                         hb  == HeartbeatDue(t3, Some(fix))
                     IN  /\ t3 <= MaxClock
                         /\ last_fix' = Some(fix)
                         /\ last_pub' = NextLastPub(pub, now, last_pub)
                         /\ clock' = t3
                         /\ nfix' = nfix + 1
                         /\ fixPub' = pub
                         /\ fixGap' = IF prevPub = -1 THEN -1 ELSE now - prevPub
                         /\ prevPub' = IF pub THEN now ELSE prevPub
                         /\ pubCount' = IF pub THEN pubCount + 1 ELSE pubCount
                         /\ hbSinceFix' = IF hb THEN 1 ELSE 0
                         /\ UNCHANGED <<pc, exc, offline, shutdown>>
           ELSE LET hb == HeartbeatDue(clock, last_fix) IN
                /\ hbSinceFix' = IF hb THEN hbSinceFix + 1 ELSE hbSinceFix
                /\ UNCHANGED <<pc, exc, clock, last_pub, last_fix, nfix,
                               pubCount, prevPub, fixPub, fixGap, offline, shutdown>>

\* ser.read times out with nothing, or returns everything waiting
Loop ==
    \E k \in {0, Min(Len(wire), ReadMax)} : LoopIteration(k)

TickSteps == {5, 50}

\* time passes
Tick ==
    /\ pc = "loop"
    /\ \E d \in TickSteps : clock + d <= MaxClock /\ clock' = clock + d
    /\ UNCHANGED <<pc, exc, last_pub, last_fix, written, cfgFailed, everRead, nfix,
                   pubCount, prevPub, fixPub, fixGap, hbSinceFix, offline, shutdown, spin,
                   readFailed, opens, payloadIn, parsedOut, frameIn, bytesOut>>
    /\ UNCHANGED rdvars

\* a 92-byte NAV-PVT payload: 2024-12-24T23:59:00, valid = 3, fixType = 3,
\* flags = 1, numSV = 8, lon = -31237549, lat = 513779263, gSpeed = 5556
NavPvtSample ==
    [i \in 1..NavPvtLen |->
        CASE i = 5 -> 232 [] i = 6 -> 7 [] i = 7 -> 12 [] i = 8 -> 24
          [] i = 9 -> 23 [] i = 10 -> 59
          [] i = 12 -> 3 [] i = 21 -> 3 [] i = 22 -> 1 [] i = 24 -> 8
          [] i = 25 -> 83 [] i = 26 -> 90 [] i = 27 -> 35 [] i = 28 -> 254
          [] i = 29 -> 63 [] i = 30 -> 164 [] i = 31 -> 159 [] i = 32 -> 30
          [] i = 61 -> 180 [] i = 62 -> 21
          [] OTHER -> 0]

\* frames the receiver sends to main: a NAV-PVT fix, a NAV-PVT frame with an
\* empty payload, an ACK-ACK, a poll-sized NAV-STATUS (class NAV, id 3)
MainFrames ==
    { <<CLASS_NAV, ID_NAV_PVT, NavPvtSample>>,
      <<CLASS_NAV, ID_NAV_PVT, <<>> >>,
      <<5, 1, <<CLASS_CFG, ID_CFG_MSG>> >>,
      <<CLASS_NAV, 3, <<>> >> }

\* the receiver sends a frame while nothing is waiting at the port
Arrive ==
    /\ pc = "loop"
    /\ wire = <<>>
    /\ Len(sent) < MaxMainFrames
    /\ \E f \in MainFrames : SendFrame(f)
    /\ UNCHANGED mainvars

(* parse_nav_pvt called on its own *)

\* payload lengths tried: none, and NavPvtLen give or take MaxLenSlack
ParseLens == {0} \cup ((NavPvtLen - MaxLenSlack)..(NavPvtLen + MaxLenSlack))

\* the sample payload cut or zero-padded to n bytes, with the valid byte, the
\* flags byte, iTOW and the top bytes of lon, lat and gSpeed replaced
ParseInput(n, valid, flags, lonTop, latTop, spdTop, itowTop) ==
    [i \in 1..n |->
        CASE i = 12 -> valid [] i = 22 -> flags [] i = 28 -> lonTop
          [] i = 32 -> latTop [] i = 64 -> spdTop
          [] i = 1 -> 64 [] i = 2 -> 226 [] i = 3 -> 1 [] i = 4 -> itowTop
          [] i > NavPvtLen -> 0
          [] OTHER -> NavPvtSample[i]]

ParseInputs ==
    {ParseInput(n, v, f, t, a, g, w) :
        n \in ParseLens, v \in 0..3, f \in 0..3, t \in {0, 127, 128, 255},
        a \in {30, 200}, g \in {0, 255}, w \in {0, 127}}

InitParse ==
    /\ InitCommon
    /\ payloadIn \in ParseInputs
    /\ frameIn = <<>>

\* parse_nav_pvt(payloadIn): the fix, or ValueError
ParseCall ==
    /\ parsedOut = None
    /\ parsedOut' = Some(parse_nav_pvt(payloadIn, clock))
    /\ UNCHANGED <<pc, exc, clock, last_pub, last_fix, written, cfgFailed, everRead, nfix,
                   pubCount, prevPub, fixPub, fixGap, hbSinceFix, offline, shutdown, spin,
                   readFailed, opens, payloadIn, frameIn, bytesOut>>
    /\ UNCHANGED rdvars

NextParse == ParseCall
SpecParse == InitParse /\ [][NextParse]_vars

(* ubx_packet called directly, as write_ubx does, on payloads short and longer
   than 255 bytes. *)
EncodeLens == {0, 1, 2, 255, 256, 257, 300}

\* a payload of n bytes, byte i being a * i + c mod 256
EncodePayload(n, a, c) == [i \in 1..n |-> (a * i + c) % 256]

EncodeInputs ==
    {<<h[1], h[2], EncodePayload(n, a, c)>> :
        h \in Headers \cup {<<CLASS_CFG, ID_CFG_MSG>>}, n \in EncodeLens, a \in {0, 1, 7}, c \in {0, 255}}

InitEncode ==
    /\ InitCommon
    /\ payloadIn = <<>>
    /\ frameIn \in EncodeInputs

\* ubx_packet(msg_class, msg_id, payload)
EncodeCall ==
    /\ bytesOut = None
    /\ bytesOut' = Some(ubx_packet(frameIn[1], frameIn[2], frameIn[3]))
    /\ UNCHANGED <<pc, exc, clock, last_pub, last_fix, written, cfgFailed, everRead, nfix,
                   pubCount, prevPub, fixPub, fixGap, hbSinceFix, offline, shutdown, spin,
                   readFailed, opens, payloadIn, parsedOut, frameIn>>
    /\ UNCHANGED rdvars

NextEncode == EncodeCall
SpecEncode == InitEncode /\ [][NextEncode]_vars

NextMain ==
    \/ OpenOk \/ OpenFail \/ ConfigWriteOk \/ ConfigWriteFail
    \/ Loop \/ Tick \/ Arrive
SpecMain == Init /\ [][NextMain]_vars

\* main with a serial port whose reads may raise
NextFaults == NextMain \/ ReadFail
SpecFaults == Init /\ [][NextFaults]_vars

\* as Arrive, for a receiver that sends at most MaxFairFrames frames
ArriveFew ==
    /\ pc = "loop"
    /\ wire = <<>>
    /\ Len(sent) < MaxFairFrames
    /\ \E f \in MainFrames : SendFrame(f)
    /\ UNCHANGED mainvars

NextFair ==
    \/ OpenOk \/ OpenFail \/ ConfigWriteOk \/ ConfigWriteFail
    \/ Loop \/ Tick \/ ArriveFew

\* main under its scheduling: the while loop keeps iterating and the clock
\* keeps advancing; nothing obliges the receiver to send
FairMain == Init /\ [][NextFair]_vars /\ WF_vars(Loop) /\ WF_vars(Tick)

\* main with every way out of its try block: Ctrl+C and the errors of
\* configuration, read and decode
NextShutdown == NextFair \/ ReadFail \/ Interrupt
SpecShutdown == Init /\ [][NextShutdown]_vars

(* C1: round-trip framing.  When the reader's buffer is empty and one ser.read
   returns exactly the bytes ubx_packet made for a frame, that read_packet call
   returns the frame's (msg_class, msg_id, payload) and leaves the buffer empty. *)
RoundTrip ==
    [][(/\ buf = <<>>
        /\ sent # <<>>
        /\ wire = Encode(sent[Len(sent)])
        /\ wire' = <<>>)
       => (ret' = Some(sent[Len(sent)]) /\ buf' = <<>>)]_vars

RoundTripWitness ==
    /\ sent # <<>>
    /\ solo /\ ~split
    /\ wire = <<>> /\ buf = <<>>
    /\ sent[Len(sent)][3] # <<>>
    /\ ret = Some(sent[Len(sent)])

(* C4: partial frame straddling calls.  A frame sent to a reader whose buffer
   and port are empty: while some of its bytes are still unread no read_packet
   call has returned it and the buffer holds exactly the bytes read so far; once
   the last byte is read it has been returned exactly once and the buffer is
   empty. *)
PartialFrame ==
    (solo /\ sent # <<>>) =>
        LET pkt == Encode(sent[Len(sent)]) IN
        IF wire # <<>>
        THEN /\ results = SubSeq(sent, 1, Len(sent) - 1)
             /\ buf = SubSeq(pkt, 1, Len(pkt) - Len(wire))
        ELSE /\ results = sent
             /\ buf = <<>>

PartialFrameWitness ==
    /\ sent # <<>>
    /\ solo /\ split
    /\ wire = <<>>
    /\ results = sent
    /\ ret = Some(sent[Len(sent)])

(* C5: checksum rejection.  With frames of which some had one payload or
   checksum byte changed, read_packet returns only the valid frames, in order,
   and once everything sent has been read and read_packet answers None every
   valid frame has been returned and nothing is left in the buffer. *)
ChecksumRejection ==
    /\ IsPrefix(results, sent)
    /\ (wire = <<>> /\ ret = None) => (results = sent /\ buf = <<>>)

ChecksumRejectionWitness ==
    /\ ncorrupt > 0
    /\ followed
    /\ wire = <<>>
    /\ sent # <<>>
    /\ results = sent

(* C2: garbage tolerance.  With valid frames interleaved with noise that holds
   no sync pair, cut into reads in any way, read_packet returns the frames in
   order, and all of them once everything sent has been read. *)
GarbageTolerance ==
    /\ IsPrefix(results, sent)
    /\ (wire = <<>> /\ ret = None) => results = sent

(* C3: a sync pair straddling two reads is not lost.  After a ser.read that
   ended with the SYNC1 of a frame, that byte is the last byte of the buffer. *)
SyncStraddleKept ==
    cut => (buf # <<>> /\ buf[Len(buf)] = SYNC1)

(* C6: malformed input never ends the read loop: main is never left by the
   ValueError that parse_nav_pvt raises on a NAV-PVT payload that is not 92
   bytes long. *)
ReadLoopSurvivesInput ==
    exc # "ValueError"

FixStale ==
    /\ pc = "loop"
    /\ last_fix # None
    /\ clock - last_fix[1].timestamp > StaleAfter

(* C7: the stale-fix heartbeat does not depend on frames arriving: once the
   last fix is more than 5.0 s old, a fix_ok "0" heartbeat is eventually
   published (or a new fix ends the staleness), whatever the receiver sends. *)
HeartbeatEventually ==
    FixStale ~> (hbSinceFix > 0 \/ ~FixStale)

(* C8: after a fix and no later fix, at most one fix_ok "0" heartbeat is
   published, not one per later frame. *)
HeartbeatOnce ==
    hbSinceFix <= 1

(* C9: publish throttling.  A decoded fix is handed to publish_fix exactly when
   no publish_fix call came before it or the last one is at least 1.0 s back;
   so the first fix is always published, two fixes 0.5 s apart give one publish
   and two fixes 1.5 s apart give two. *)
PublishThrottle ==
    /\ nfix > 0 => (fixPub <=> (fixGap = -1 \/ fixGap >= ThrottleInterval))
    /\ nfix > 0 => pubCount > 0
    /\ (nfix = 2 /\ fixGap = 5) => pubCount = 1
    /\ (nfix = 2 /\ fixGap = 15) => pubCount = 2

PublishThrottleWitness ==
    /\ nfix = 2
    /\ fixGap = 5
    /\ ~fixPub
    /\ pubCount = 1

(* C10: a serial write that raises inside configure_receiver is not a startup
   failure: main still reaches the read loop. *)
ConfigFailureProceeds ==
    cfgFailed => (pc = "loop" \/ everRead)

(* C11: a serial read that raises is a cycle with no bytes: after ser.read has
   raised inside read_packet, main is still in its loop and no exception has
   left it. *)
ReadFailureAbsorbed ==
    readFailed => (pc = "loop" /\ exc = "none")

(* C16: a failed serial open is fatal and not retried: the exception leaves
   main, no configuration frame is written, read_packet is never called and
   serial.Serial is not called again. *)
OpenFailureFatal ==
    (opens # <<>> /\ opens[1] = "failed") =>
        /\ pc = "exited"
        /\ exc = "SerialException"
        /\ written = <<>>
        /\ ~everRead
        /\ opens = <<"failed">>

OpenFailureFatalWitness ==
    /\ opens = <<"failed">>
    /\ pc = "exited"

(* C12: startup configuration.  What has been written to the serial port is
   always a prefix of four CFG-MSG frames (class 0x06, id 0x01, 6-byte
   payload): NAV-PVT enabled on USB, then GGA, RMC and ZDA disabled; all four
   have been written before the first read_packet call, and nothing is written
   after it. *)
ConfigSequence ==
    LET expected == << <<1, 7, 0, 0, 0, 1>>, <<240, 0, 0, 0, 0, 0>>,
                       <<240, 4, 0, 0, 0, 0>>, <<240, 8, 0, 0, 0, 0>> >>
    IN  /\ Len(written) <= 4
        /\ \A i \in 1..Len(written) :
              /\ Len(written[i]) = 14
              /\ read_packet(<<>>, written[i]) = [buf |-> <<>>, ret |-> Some(<<6, 1, expected[i]>>)]
        /\ (pc = "loop" \/ everRead) => Len(written) = 4

ConfigSequenceWitness ==
    /\ everRead
    /\ results # <<>>
    /\ Len(written) = 4

(* C13: wrong-length payload rejection.  parse_nav_pvt raises ValueError and
   gives no fix record for a payload that is not 92 bytes long (91 and 93
   among them), and gives a record with every field for one that is. *)
WrongLengthRejected ==
    parsedOut # None =>
        LET r == parsedOut[1] IN
        IF Len(payloadIn) = 92
        THEN /\ ~r.raised
             /\ DOMAIN r.fix = {"iTOW_ms", "time", "time_ok", "fix_type", "fix_ok", "numSV",
                                "lat", "lon", "speed_mps", "speed_kmh", "timestamp"}
        ELSE /\ r.raised
             /\ r.fix = <<>>

WrongLengthRejectedWitness ==
    /\ Len(payloadIn) = 93
    /\ parsedOut # None
    /\ parsedOut[1].raised

(* C14: unknown message types are ignored.  A loop iteration that reads a
   frame whose (msg_class, msg_id) is not (0x01, 0x07) decodes nothing, raises
   nothing, calls publish_fix not at all and leaves last_fix and last_pub as
   they were. *)
UnknownIgnored ==
    [][(/\ pc = "loop"
        /\ spin' # spin
        /\ ret' # None
        /\ ~(ret'[1][1] = 1 /\ ret'[1][2] = 7))
       => (/\ last_fix' = last_fix
           /\ last_pub' = last_pub
           /\ pubCount' = pubCount
           /\ nfix' = nfix
           /\ pc' = "loop"
           /\ exc' = "none")]_vars

UnknownIgnoredWitness ==
    /\ pc = "loop"
    /\ nfix > 0
    /\ ret = Some(<<1, 3, <<>> >>)

(* C15: a stale-fix heartbeat leaves the publisher's state alone: the
   iteration that publishes it changes neither last_fix nor last_pub, and none
   is published while no fix has been decoded. *)
HeartbeatLeavesState ==
    [][(hbSinceFix' > hbSinceFix /\ nfix' = nfix)
       => (/\ last_fix # None
           /\ last_fix' = last_fix
           /\ last_pub' = last_pub)]_vars

HeartbeatLeavesStateWitness ==
    /\ hbSinceFix > 0
    /\ last_fix # None
    /\ last_pub > 0

(* C17: no-sync discard.  A buffer left by read_packet in which the pair
   0xB5 0x62 occurs nowhere is empty, whatever its length was. *)
NoSyncDiscard ==
    FindSync(buf) = -1 => buf = <<>>

(* C19: an incomplete frame waits.  When the buffer with the bytes just read
   begins with the sync marker and is shorter than 8 + length bytes (or too
   short to hold a header), read_packet returns None and the buffer is exactly
   those bytes. *)
IncompleteWaits ==
    [][(/\ sent' = sent /\ noiseN' = noiseN /\ ncorrupt' = ncorrupt
        /\ Len(wire') <= Len(wire))
       => LET b == buf \o SubSeq(wire, 1, Len(wire) - Len(wire')) IN
          (/\ Len(b) >= 2 /\ b[1] = 181 /\ b[2] = 98
           /\ (Len(b) < 8 \/ Len(b) < 8 + b[5] + 256 * b[6]))
          => (ret' = None /\ buf' = b)]_vars

IncompleteWaitsWitness ==
    /\ ret = None
    /\ Len(buf) >= 8
    /\ buf[1] = 181 /\ buf[2] = 98
    /\ wire # <<>>

(* C20: every triple read_packet returns is a validated frame: the bytes it
   consumed end with sync, class, id, the little-endian length of the payload,
   the payload and the two checksum bytes that ubx_checksum gives for
   class..payload; the buffer keeps what came after them. *)
ReturnedFrameValid ==
    [][(/\ sent' = sent /\ noiseN' = noiseN /\ ncorrupt' = ncorrupt
        /\ Len(wire') <= Len(wire)
        /\ ret' # None)
       => LET b   == buf \o SubSeq(wire, 1, Len(wire) - Len(wire'))
              f   == ret'[1]
              n   == Len(b) - Len(buf')
              len == Len(f[3])
              pkt == SubSeq(b, n - 7 - len, n)
          IN  /\ n >= 8 + len
              /\ buf' = SubSeq(b, n + 1, Len(b))
              /\ pkt[1] = 181 /\ pkt[2] = 98
              /\ pkt[3] = f[1] /\ pkt[4] = f[2]
              /\ pkt[5] + 256 * pkt[6] = len
              /\ SubSeq(pkt, 7, 6 + len) = f[3]
              /\ ubx_checksum(SubSeq(pkt, 3, 6 + len)) = <<pkt[7 + len], pkt[8 + len]>>]_vars

ReturnedFrameValidWitness ==
    /\ ncorrupt > 0
    /\ ret # None
    /\ ret[1][3] # <<>>

(* C18: resync by prefix drop.  When the buffer with the bytes just read holds
   at least 8 bytes and its first sync marker is at offset k > 0, read_packet
   works on that buffer without its first k bytes: if the frame there is
   incomplete the buffer is left as exactly those bytes, and if the frame there
   is returned its class, id and payload are the ones at offsets k+2, k+3 and
   k+6. *)
ResyncDropsPrefix ==
    [][(/\ sent' = sent /\ noiseN' = noiseN /\ ncorrupt' = ncorrupt
        /\ Len(wire') <= Len(wire))
       => LET b  == buf \o SubSeq(wire, 1, Len(wire) - Len(wire'))
              hits == {i \in 1..(Len(b) - 1) : b[i] = 181 /\ b[i + 1] = 98}
          IN  (Len(b) >= 8 /\ hits # {} /\ 1 \notin hits)
              => LET k  == (CHOOSE i \in hits : \A j \in hits : i <= j) - 1
                     b2 == SubSeq(b, k + 1, Len(b))
                 IN  IF Len(b2) < 8 \/ Len(b2) < 8 + b2[5] + 256 * b2[6]
                     THEN ret' = None /\ buf' = b2
                     ELSE (ret' # None /\ Len(buf') = Len(b2) - (8 + b2[5] + 256 * b2[6]))
                          => ret'[1] = <<b2[3], b2[4], SubSeq(b2, 7, 6 + b2[5] + 256 * b2[6])>>]_vars

ResyncDropsPrefixWitness ==
    /\ noiseN > 0
    /\ sent # <<>>
    /\ results = sent
    /\ ~solo
    /\ wire = <<>>

(* C21: append-then-consume buffer.  A read_packet call leaves in the buffer
   a contiguous suffix of the old buffer followed by the bytes just read:
   bytes are added at the end only and removed from the front only, none is
   reordered or duplicated, and the bytes of a returned frame are gone from
   the buffer.  (By induction the buffer is always a suffix of everything
   read so far.) *)
AppendThenConsume ==
    [][(sent' = sent /\ noiseN' = noiseN /\ ncorrupt' = ncorrupt /\ Len(wire') <= Len(wire)) =>
          LET chunk == SubSeq(wire, 1, Len(wire) - Len(wire'))
              b     == buf \o chunk
          IN  /\ IsSuffix(buf', b)
              /\ ret' # None => Len(buf') + 8 + Len(ret'[1][3]) <= Len(b)]_vars

AppendThenConsumeWitness ==
    /\ results # <<>>
    /\ noiseN > 0
    /\ buf # <<>>
    /\ ret # None

(* C22: read_packet is finite per call.  Every pass of the scanning loop but
   the last (which returns) starts with at least 8 bytes fewer in the buffer
   than the pass before it, so a call on a buffer of n bytes makes at most
   n/8 + 1 passes; what is left is the buffer of the next call. *)
ScanTerminates ==
    /\ \A i \in 1..(Len(passes) - 1) : passes[i] - passes[i + 1] >= 8
    /\ passes # <<>> =>
          /\ Len(passes) <= (passes[1] \div 8) + 1
          /\ Len(buf) <= passes[Len(passes)]

ScanTerminatesWitness ==
    /\ Len(passes) >= 2
    /\ ncorrupt > 0
    /\ buf # <<>>

(* C23: unbounded wait on an oversized length field.  When the buffer with
   the bytes just read begins with a complete header (sync marker, class, id,
   length L) and holds fewer than 8 + L bytes, read_packet returns None after
   a single pass, emits no frame and discards nothing, whatever L up to 65535
   is and whatever lies behind the header, complete valid frames included. *)
OversizeStalls ==
    [][(/\ sent' = sent /\ noiseN' = noiseN /\ ncorrupt' = ncorrupt
        /\ Len(wire') <= Len(wire))
       => LET b == buf \o SubSeq(wire, 1, Len(wire) - Len(wire')) IN
          (/\ Len(b) >= 8 /\ b[1] = 181 /\ b[2] = 98
           /\ Len(b) - 8 < b[5] + 256 * b[6])
          => /\ ret' = None
             /\ results' = results
             /\ buf' = b
             /\ passes' = <<Len(b)>>]_vars

\* a complete valid frame lies in the buffer behind a header claiming 65535 bytes
OversizeStallsWitness ==
    /\ sent # <<>>
    /\ results = <<>>
    /\ ret = None
    /\ wire = <<>>
    /\ passes = <<Len(buf)>>
    /\ Len(buf) >= 14
    /\ buf[5] = 255 /\ buf[6] = 255
    /\ SubSeq(buf, 7, Len(buf)) = Encode(sent[1])

\* the 8-bit running sums of ubx_checksum over d[i..j], in closed form: ck_a is
\* the sum of the bytes, ck_b the sum of the values ck_a took, in which byte k
\* of n counts n - k + 1 times (both mod 256); summed by halves
RECURSIVE RunA(_, _, _)
RunA(d, i, j) ==
    IF i > j THEN 0
    ELSE IF i = j THEN d[i]
    ELSE (RunA(d, i, (i + j) \div 2) + RunA(d, (i + j) \div 2 + 1, j)) % 256
RECURSIVE RunB(_, _, _)
RunB(d, i, j) ==
    IF i > j THEN 0
    ELSE IF i = j THEN ((Len(d) - i + 1) * d[i]) % 256
    ELSE (RunB(d, i, (i + j) \div 2) + RunB(d, (i + j) \div 2 + 1, j)) % 256

(* C24: frame encoding layout.  The bytes ubx_packet gives for class c, id i
   and payload p are exactly 8 + len(p) long: B5, 62, c, i, len(p) mod 256,
   len(p) div 256, p, ck_a, ck_b, where ck_a and ck_b are the 8-bit running
   sums over the bytes from c through the end of p, both within 0..255. *)
EncodingLayout ==
    bytesOut # None =>
        LET p    == frameIn[3]
            n    == Len(p)
            pkt  == bytesOut[1]
            body == SubSeq(pkt, 3, 6 + n)
        IN  /\ Len(pkt) = 8 + n
            /\ pkt[1] = 181 /\ pkt[2] = 98
            /\ pkt[3] = frameIn[1] /\ pkt[4] = frameIn[2]
            /\ pkt[5] = n % 256 /\ pkt[6] = n \div 256
            /\ SubSeq(pkt, 7, 6 + n) = p
            /\ pkt[7 + n] = RunA(body, 1, 4 + n)
            /\ pkt[8 + n] = RunB(body, 1, 4 + n)
            /\ pkt[7 + n] \in 0..255 /\ pkt[8 + n] \in 0..255

EncodingLayoutWitness ==
    /\ bytesOut # None
    /\ Len(frameIn[3]) > 256
    /\ bytesOut[1][5] # 0 /\ bytesOut[1][6] # 0
    /\ bytesOut[1][Len(bytesOut[1])] # 0

(* C25: NAV-PVT field extraction.  For a 92-byte payload parse_nav_pvt gives
   fix_ok = bit 0 of byte 21, time_ok = bit 0 or bit 1 of byte 11, numSV =
   byte 23, fix_type = byte 20, iTOW = the little-endian uint32 at bytes 0-3,
   and lon, lat and ground speed from the two's-complement little-endian
   int32 at offsets 24, 28 and 60, negative exactly when the top bit of the
   fourth byte is set.  (Byte k of the payload is payloadIn[k + 1].) *)
FieldExtraction ==
    (parsedOut # None /\ Len(payloadIn) = 92) =>
        LET f == parsedOut[1].fix
            p == payloadIn
            Bit(x, k) == (x \div (2 ^ k)) % 2 = 1
            S32(off) == p[off + 1] + 256 * p[off + 2] + 65536 * p[off + 3]
                        + 16777216 * (IF Bit(p[off + 4], 7) THEN p[off + 4] - 256 ELSE p[off + 4])
        IN  /\ f.fix_ok = Bit(p[22], 0)
            /\ f.time_ok = (Bit(p[12], 0) \/ Bit(p[12], 1))
            /\ f.numSV = p[24]
            /\ f.fix_type = p[21]
            /\ f.iTOW_ms = p[1] + 256 * p[2] + 65536 * p[3] + 16777216 * p[4]
            /\ f.lon = S32(24) /\ (f.lon < 0) = Bit(p[28], 7)
            /\ f.lat = S32(28) /\ (f.lat < 0) = Bit(p[32], 7)
            /\ f.speed_mps = S32(60) /\ (f.speed_mps < 0) = Bit(p[64], 7)
            /\ f.speed_kmh = 36 * S32(60)

FieldExtractionWitness ==
    /\ parsedOut # None
    /\ Len(payloadIn) = 92
    /\ payloadIn[12] = 2 /\ parsedOut[1].fix.time_ok
    /\ payloadIn[22] = 2 /\ ~parsedOut[1].fix.fix_ok
    /\ parsedOut[1].fix.lon < 0
    /\ parsedOut[1].fix.lat < 0
    /\ parsedOut[1].fix.speed_mps < 0
    /\ parsedOut[1].fix.iTOW_ms > 16777216

(* C26: a candidate that fails its checksum is discarded as a whole.  When
   the buffer with the bytes just read begins with a complete candidate (sync
   marker, header, 8 + length bytes present) whose checksum bytes are wrong,
   read_packet removes exactly those 8 + length bytes and scans on in what
   follows them: the second pass starts on the rest, what it leaves is a
   suffix of the rest, and a frame it returns lies wholly in the rest.  A
   valid frame that begins inside the candidate's span is therefore gone. *)
CandidateDiscardedWhole ==
    [][(/\ sent' = sent /\ noiseN' = noiseN /\ ncorrupt' = ncorrupt
        /\ Len(wire') <= Len(wire))
       => LET b     == buf \o SubSeq(wire, 1, Len(wire) - Len(wire'))
              total == 8 + b[5] + 256 * b[6]
              body  == SubSeq(b, 3, total - 2)
              rest  == SubSeq(b, total + 1, Len(b))
          IN  (/\ Len(b) >= 8 /\ b[1] = 181 /\ b[2] = 98
               /\ Len(b) >= total
               /\ (b[total - 1] # RunA(body, 1, Len(body)) \/ b[total] # RunB(body, 1, Len(body))))
              => /\ Len(passes') >= 2 /\ passes'[2] = Len(rest)
                 /\ IsSuffix(buf', rest)
                 /\ Len(rest) < 8 => (ret' = None /\ buf' = rest)
                 /\ ret' # None => Len(buf') + 8 + Len(ret'[1][3]) <= Len(rest)]_vars

\* a valid frame sent right behind a 3-byte-claiming header was read whole,
\* its first bytes went with the failed candidate, and it was not returned
CandidateDiscardedWholeWitness ==
    /\ sent # <<>>
    /\ followed
    /\ ncorrupt = 1
    /\ wire = <<>>
    /\ results = <<>>
    /\ Len(passes) = 2
    /\ passes[1] = 6 + Len(Encode(sent[1]))
    /\ buf = SubSeq(Encode(sent[1]), 6, Len(Encode(sent[1])))

(* C27: one frame per call, in stream order.  On a line carrying valid frames
   only, a read_packet call adds at most one frame to what has been returned,
   the frames returned are the frames sent in the order sent, and whenever
   the buffer with the bytes just read holds the whole of the earliest frame
   not yet returned, the call returns that frame and keeps every byte behind
   it; a call whose read brings nothing is no exception. *)
OneFramePerCall ==
    [][(/\ sent' = sent /\ noiseN' = noiseN /\ ncorrupt' = ncorrupt
        /\ Len(wire') <= Len(wire))
       => LET b == buf \o SubSeq(wire, 1, Len(wire) - Len(wire')) IN
          /\ Len(ret') <= 1
          /\ results' = results \o ret'
          /\ IsPrefix(results', sent)
          /\ Len(results) < Len(sent) =>
                LET e == Encode(sent[Len(results) + 1]) IN
                IF Len(b) >= Len(e)
                THEN ret' = Some(sent[Len(results) + 1]) /\ buf' = DelPrefix(b, Len(e))
                ELSE ret' = None /\ buf' = b]_vars

\* the first of two frames has just been returned by a call that left the whole
\* second frame in the buffer, and nothing more waits at the port
OneFramePerCallWitness ==
    /\ Len(sent) = 2
    /\ wire = <<>>
    /\ ret = Some(sent[1])
    /\ results = <<sent[1]>>
    /\ buf = Encode(sent[2])

(* C28: the buffer after a None result.  Whenever the last read_packet call
   returned None, the buffer holds fewer than 8 bytes, or it begins with
   B5 62 and holds fewer than 8 + length bytes, length being the 16-bit field
   at offsets 4-5; in either case fewer than 65543 bytes. *)
NoneLeavesShort ==
    ret = None =>
        /\ \/ Len(buf) < 8
           \/ /\ buf[1] = 181 /\ buf[2] = 98
              /\ Len(buf) < 8 + buf[5] + 256 * buf[6]
        /\ Len(buf) < 65543

\* a call that began with 8 or more bytes and no frame sent returned None and
\* left nothing
NoneLeavesShortWitness ==
    /\ ret = None
    /\ sent = <<>>
    /\ ncorrupt = 0
    /\ passes # <<>>
    /\ passes[1] >= 8
    /\ buf = <<>>

(* C29: the throttle timer is advanced only by a publish.  Every decoded fix
   becomes last_fix, with the time of its decoding as timestamp; a fix that
   is not handed to publish_fix leaves last_pub and the number of publishes
   as they were, and no later step publishes it (publishes happen only in the
   iteration that decodes the fix published); a fix decoded 1.0 s or more
   after last_pub is published whatever came in between, and a published fix
   moves last_pub forward by at least 1.0 s. *)
ThrottleTimer ==
    [][/\ nfix' = nfix + 1 =>
            /\ last_fix' # None /\ last_fix'[1].timestamp = clock
            /\ ~fixPub' => (last_pub' = last_pub /\ pubCount' = pubCount)
            /\ fixPub' => (pubCount' = pubCount + 1 /\ last_pub' >= clock
                           /\ last_pub' - last_pub >= 10)
            /\ clock - last_pub >= 10 => fixPub'
       /\ pubCount' # pubCount => (nfix' = nfix + 1 /\ fixPub')
       /\ last_pub' # last_pub => pubCount' = pubCount + 1]_vars

\* published, suppressed 0.5 s later, published 1.0 s after the first publish
ThrottleTimerWitness ==
    /\ nfix = 3
    /\ pubCount = 2
    /\ fixPub
    /\ fixGap = 10
    /\ last_fix # None
    /\ last_fix[1].timestamp < last_pub + 10

(* C30: shutdown ordering.  Once the serial port is open, main is left only
   through its finally block, whether by Ctrl+C or by an error of
   configuration, read or decode: the block attempts the retained "offline"
   status, then loop_stop, then the close of the port, each of them whatever
   became of the one before, and the step that leaves publishes no fix and
   no heartbeat; without an open port there is no such shutdown. *)
ShutdownOrdering ==
    [][/\ (pc' = "exited" /\ pc # "exited") =>
            /\ pubCount' = pubCount /\ hbSinceFix' = hbSinceFix
            /\ IF pc = "open"
               THEN shutdown' = <<>> /\ ~offline'
               ELSE /\ Len(shutdown') = 3
                    /\ shutdown'[1][1] = "offline" /\ shutdown'[2][1] = "loop_stop"
                    /\ shutdown'[3][1] = "close"
                    /\ offline' = shutdown'[1][2]
                    /\ exc' \in {"none", "SerialException", "ValueError"}
       /\ pc = "exited" => (pubCount' = pubCount /\ hbSinceFix' = hbSinceFix /\ shutdown' = shutdown)
       /\ pc' # "exited" => shutdown' = <<>>]_vars

\* a decode error after a published fix: the status publish and loop_stop both
\* failed, and the port was still closed
ShutdownOrderingWitness ==
    /\ pc = "exited"
    /\ exc = "ValueError"
    /\ pubCount > 0
    /\ shutdown = << <<"offline", FALSE>>, <<"loop_stop", FALSE>>, <<"close", TRUE>> >>

====
